---- MODULE Spec2Model ----
(***************************************************************************)
(* A model of mopa-revised (src/src/lib.rs): the Any capability with its   *)
(* blanket implementation, and the three method families the mopafy!       *)
(* macro generates for a trait object type (core: &dyn / &mut dyn,         *)
(* boxed: Box<dyn>, arc: Arc<dyn>).                                        *)
(*                                                                         *)
(* Memory is a set of cells, one per value that was put behind a handle.   *)
(* A handle is a (fat or thin) pointer held by the caller in a slot: its   *)
(* data address, the concrete type its vtable was built for, and its       *)
(* static pointee type (Dyn for the trait object, a concrete type after a  *)
(* downcast).                                                              *)
(***************************************************************************)
EXTENDS Integers, FiniteSets, Sequences, TLC

\* ---------------------------------------------------------------- bounds
MaxObjs == 1
MaxSlots == 2
MaxVal == 1
NumTraits == 2

\* The concrete types that implement the mopafied trait Person.
Benny == 1
Chris == 2
Types == {Benny, Chris}
Addrs == 1..MaxObjs
Slots == 1..MaxSlots
Vals  == 0..MaxVal

\* The static type `dyn Person` of a polymorphic handle (no concrete type).
Dyn == 0
VARIABLES mem, handles, last, ub, pc, raw, invoked

vars == <<mem, handles, last, ub, pc, raw, invoked>>

\* ---------------------------------------------------------- memory cells
UnusedCell == [st |-> "unused", kind |-> "none", ty |-> Dyn, val |-> 0, strong |-> 0, frees |-> 0]
LiveCell(k, t, v, n) == [st |-> "live", kind |-> k, ty |-> t, val |-> v, strong |-> n, frees |-> 0]
FreedCell(c) == [st |-> "freed", kind |-> c.kind, ty |-> Dyn, val |-> 0, strong |-> 0, frees |-> c.frees + 1]

\* ---------------------------------------------------------------- handles
NoHandle == [kind |-> "none", ptr |-> 0, vt |-> Dyn, sty |-> Dyn]
\* Unsizing coercion of a pointer to a concrete t into a pointer to dyn Person:
\* the fat pointer carries t's vtable.
DynHandle(k, a, t) == [kind |-> k, ptr |-> a, vt |-> t, sty |-> Dyn]
\* A thin pointer to a concrete type T.
ThinHandle(k, a, T) == [kind |-> k, ptr |-> a, vt |-> Dyn, sty |-> T]

NoRef == [ptr |-> 0, sty |-> Dyn]

\* What the caller holds and what it points at.
World == [mem |-> mem, hs |-> handles]

\* The value read through a reference (0 where nothing lives).
Deref(m, r) == IF r.ptr \in Addrs THEN m[r.ptr].val ELSE 0

\* Number of handles (of any static type) that point at address a.
Owners(hs, a) == Cardinality({s \in Slots : hs[s].kind # "none" /\ hs[s].ptr = a})

\* ------------------------------------------------- std: Arc::clone and Drop
\* let person1 = person.clone();
Arc_clone(w, s, d) ==
    [mem |-> [w.mem EXCEPT ![w.hs[s].ptr].strong = @ + 1],
     hs  |-> [w.hs EXCEPT ![d] = w.hs[s]]]

\* A handle goes out of scope: a Box frees its allocation, an Arc lowers the
\* strong count and frees the allocation when it was the last, a reference
\* ends with the scope of the value it borrows.
DropHandle(w, s) ==
    LET a == w.hs[s].ptr
        c == w.mem[a]
        gone == w.hs[s].kind # "arc" \/ c.strong = 1
    IN [mem |-> [w.mem EXCEPT ![a] = IF gone THEN FreedCell(c)
                                     ELSE [c EXCEPT !.strong = @ - 1]],
        hs  |-> [w.hs EXCEPT ![s] = NoHandle]]

\* ------------------------------------------------------- Identity capability
\* core::any::TypeId::of::<T>(): an opaque token, one per type (dyn Person
\* has one of its own).
TypeIdOf(t) == 2 * t + 1

\* A slip: the token of the handle's static type (dyn Person) instead of a
\* dispatch to the concrete type.
get_type_id_static(h) == TypeIdOf(h.sty)

\* impl<T: core::any::Any> Any for T { fn __get_type_id(&self) }: called on a
\* trait object it dispatches through the vtable to the concrete type's impl.
get_type_id(h) == TypeIdOf(h.vt)

\* ------------------------------------------------------------- core family
is(h, T) == TypeIdOf(T) = get_type_id(h)

\* A slip: the address of the reference itself, not of what it points at.
downcast_ref_unchecked_of_handle(h, T) == [ptr |-> 0, sty |-> T]

\* &*(self as *const Self as *const T): the data address kept, the vtable dropped.
downcast_ref_unchecked(h, T) == [ptr |-> h.ptr, sty |-> T]

\* A slip: the match hands out a reference to a temporary copy.
downcast_ref_copying(h, T) ==
    IF is(h, T)
    THEN [tag |-> "Some", ref |-> [ptr |-> 0, sty |-> T]]
    ELSE [tag |-> "None", ref |-> NoRef]

downcast_ref(h, T) ==
    IF is(h, T)
    THEN [tag |-> "Some", ref |-> downcast_ref_unchecked(h, T)]
    ELSE [tag |-> "None", ref |-> NoRef]

\* A slip: an exclusive reference to a temporary copy.
downcast_mut_unchecked_copy(h, T) == [ptr |-> 0, sty |-> T]

\* &mut *(self as *mut Self as *mut T)
downcast_mut_unchecked(h, T) == [ptr |-> h.ptr, sty |-> T]

downcast_mut(h, T) ==
    IF is(h, T)
    THEN [tag |-> "Some", ref |-> downcast_mut_unchecked(h, T)]
    ELSE [tag |-> "None", ref |-> NoRef]

\* ------------------------------------------------------------ boxed family
\* A slip: the pointer taken by reborrowing, and the Box dropped at the end
\* of the call.
Box_into_raw_dropping(w, s) == [w |-> DropHandle(w, s), p |-> w.hs[s].ptr]

\* Box::into_raw(self): the Box is consumed without running its destructor.
Box_into_raw(w, s) == [w |-> [w EXCEPT !.hs[s] = NoHandle], p |-> w.hs[s].ptr]

\* Box::from_raw(p as *mut T): a Box<T> owning the allocation at p.
Box_from_raw(w, s, p, T) == [w EXCEPT !.hs[s] = ThinHandle("box", p, T)]

downcast_box_unchecked(w, s, T) ==
    LET r == Box_into_raw(w, s) IN Box_from_raw(r.w, s, r.p, T)

\* A slip: the mismatch drops the Box instead of giving it back.
downcast_box_dropping(w, s, T) ==
    IF is(w.hs[s], T)
    THEN [tag |-> "Ok", w |-> downcast_box_unchecked(w, s, T)]
    ELSE [tag |-> "Err", w |-> DropHandle(w, s)]

downcast_box(w, s, T) ==
    IF is(w.hs[s], T)
    THEN [tag |-> "Ok", w |-> downcast_box_unchecked(w, s, T)]
    ELSE [tag |-> "Err", w |-> w]

\* -------------------------------------------------------------- arc family
\* A slip: the handle dropped (its count given up) once the pointer is taken.
Arc_into_raw_dropping(w, s) == [w |-> DropHandle(w, s), p |-> w.hs[s].ptr]

\* Arc::into_raw(this): the handle is consumed, the strong count is not touched.
Arc_into_raw(w, s) == [w |-> [w EXCEPT !.hs[s] = NoHandle], p |-> w.hs[s].ptr]

\* A slip: the new handle counted as one more owner.
Arc_from_raw_counting(w, s, p, T) ==
    [mem |-> [w.mem EXCEPT ![p].strong = @ + 1],
     hs  |-> [w.hs EXCEPT ![s] = ThinHandle("arc", p, T)]]

\* Arc::from_raw(p as *mut T): an Arc<T> for the same allocation, the strong
\* count not touched.
Arc_from_raw(w, s, p, T) == [w EXCEPT !.hs[s] = ThinHandle("arc", p, T)]

downcast_arc_unchecked(w, s, T) ==
    LET r == Arc_into_raw(w, s) IN Arc_from_raw(r.w, s, r.p, T)

downcast_arc(w, s, T) ==
    IF is(w.hs[s], T)
    THEN [tag |-> "Ok", w |-> downcast_arc_unchecked(w, s, T)]
    ELSE [tag |-> "Err", w |-> w]

\* ------------------------------------------------------------ observations
\* The last call of a generated method: its arguments, its result, and what
\* the handle and its cell were when it was called.
NoLast ==
    [op |-> "none", slot |-> 0, T |-> Dyn, ok |-> FALSE, ret |-> NoRef, val |-> 0,
     pre |-> [h |-> NoHandle, cell |-> UnusedCell, owners |-> 0]]

Obs(op, s, T, ok, ret, val) ==
    [op |-> op, slot |-> s, T |-> T, ok |-> ok, ret |-> ret, val |-> val,
     pre |-> [h |-> handles[s], cell |-> mem[handles[s].ptr],
              owners |-> Owners(handles, handles[s].ptr)]]

IsDyn(s) == handles[s].kind # "none" /\ handles[s].sty = Dyn

Unused == {a \in Addrs : mem[a].st = "unused"}
FreshAddr == CHOOSE a \in Unused : \A b \in Unused : a <= b

\* The caller's next variable: the first slot that holds nothing.
FreeSlots == {s \in Slots : handles[s] = NoHandle /\ pc[s] = "idle"}
FreeSlot == CHOOSE s \in FreeSlots : \A d \in FreeSlots : s <= d

\* The raw pointer a holder has between Arc::into_raw and Arc::from_raw.
NoRaw == [p |-> 0, T |-> Dyn]

Init ==
    /\ mem = [a \in Addrs |-> UnusedCell]
    /\ handles = [s \in Slots |-> NoHandle]
    /\ last = NoLast
    /\ ub = FALSE
    /\ pc = [s \in Slots |-> "idle"]
    /\ raw = [s \in Slots |-> NoRaw]
    /\ invoked = [tr \in 1..NumTraits |-> {}]

\* --------------------------------------------------- the caller's own steps
\* let person: &Person = &benny;  let person: &mut Person = &mut benny;
\* let person: Box<Person> = Box::new(benny);  let person: Arc<Person> = Arc::new(benny);
New(k, t, v) ==
    /\ ~ub
    /\ FreeSlots # {}
    /\ Unused # {}
    /\ mem' = [mem EXCEPT ![FreshAddr] =
                 LiveCell(IF k \in {"ref", "mut"} THEN "stack" ELSE k, t, v,
                          IF k = "arc" THEN 1 ELSE 0)]
    /\ handles' = [handles EXCEPT ![FreeSlot] = DynHandle(k, FreshAddr, t)]
    /\ last' = NoLast
    /\ UNCHANGED <<ub, pc, raw, invoked>>

Clone(s) ==
    /\ ~ub
    /\ handles[s].kind = "arc"
    /\ FreeSlots # {}
    /\ mem' = Arc_clone(World, s, FreeSlot).mem
    /\ handles' = Arc_clone(World, s, FreeSlot).hs
    /\ last' = NoLast
    /\ UNCHANGED <<ub, pc, raw, invoked>>

Drop(s) ==
    /\ ~ub
    /\ handles[s].kind # "none"
    /\ mem' = DropHandle(World, s).mem
    /\ handles' = DropHandle(World, s).hs
    /\ last' = NoLast
    /\ UNCHANGED <<ub, pc, raw, invoked>>

\* ------------------------------------------------------ calls: core family
Is(s, T) ==
    /\ ~ub
    /\ IsDyn(s)
    /\ last' = Obs("is", s, T, is(handles[s], T), NoRef, 0)
    /\ UNCHANGED <<mem, handles, ub, pc, raw, invoked>>

DowncastRef(s, T) ==
    /\ ~ub
    /\ IsDyn(s)
    /\ LET r == downcast_ref(handles[s], T)
       IN last' = Obs("downcast_ref", s, T, r.tag = "Some", r.ref, Deref(mem, r.ref))
    /\ UNCHANGED <<mem, handles, ub, pc, raw, invoked>>

\* Called with a T that is not the payload's type, the reference is to a T
\* that is not there: what is read through it is not defined.
DowncastRefUnchecked(s, T) ==
    /\ ~ub
    /\ IsDyn(s)
    /\ LET r == downcast_ref_unchecked(handles[s], T)
       IN IF T = mem[handles[s].ptr].ty
          THEN /\ last' = Obs("downcast_ref_unchecked", s, T, TRUE, r, Deref(mem, r))
               /\ ub' = FALSE
          ELSE /\ \E v \in Vals : last' = Obs("downcast_ref_unchecked", s, T, TRUE, r, v)
               /\ ub' = TRUE
    /\ UNCHANGED <<mem, handles, pc, raw, invoked>>

\* A slip: the mismatch resets the payload.
DowncastMutClobber(s, T) ==
    /\ ~ub
    /\ IsDyn(s)
    /\ handles[s].kind \in {"mut", "box"}
    /\ LET r == downcast_mut(handles[s], T)
       IN /\ last' = Obs("downcast_mut", s, T, r.tag = "Some", r.ref, Deref(mem, r.ref))
          /\ mem' = IF r.tag = "Some" THEN mem
                    ELSE [mem EXCEPT ![handles[s].ptr].val = 0]
    /\ UNCHANGED <<handles, ub, pc, raw, invoked>>

\* &mut self: the caller holds the value exclusively (a &mut or a Box).
DowncastMut(s, T) ==
    /\ ~ub
    /\ IsDyn(s)
    /\ handles[s].kind \in {"mut", "box"}
    /\ LET r == downcast_mut(handles[s], T)
       IN last' = Obs("downcast_mut", s, T, r.tag = "Some", r.ref, Deref(mem, r.ref))
    /\ UNCHANGED <<mem, handles, ub, pc, raw, invoked>>

DowncastMutUnchecked(s, T) ==
    /\ ~ub
    /\ IsDyn(s)
    /\ handles[s].kind \in {"mut", "box"}
    /\ LET r == downcast_mut_unchecked(handles[s], T)
       IN IF T = mem[handles[s].ptr].ty
          THEN /\ last' = Obs("downcast_mut_unchecked", s, T, TRUE, r, Deref(mem, r))
               /\ ub' = FALSE
          ELSE /\ \E v \in Vals : last' = Obs("downcast_mut_unchecked", s, T, TRUE, r, v)
               /\ ub' = TRUE
    /\ UNCHANGED <<mem, handles, pc, raw, invoked>>

\* The caller writes through the &mut T it was just given.
MutateThrough(v) ==
    /\ ~ub
    /\ last.op \in {"downcast_mut", "downcast_mut_unchecked"}
    /\ last.ok
    /\ mem' = IF last.ret.ptr \in Addrs
              THEN [mem EXCEPT ![last.ret.ptr].val = v]
              ELSE mem
    /\ last' = [last EXCEPT !.op = IF last.op = "downcast_mut" THEN "write_mut"
                                  ELSE "write_mut_unchecked",
                             !.val = v]
    /\ UNCHANGED <<handles, ub, pc, raw, invoked>>

\* ----------------------------------------------------- calls: boxed family
\* The handle the call returned, as a reference to what it owns.
Held(w, s) == [ptr |-> w.hs[s].ptr, sty |-> w.hs[s].sty]

DowncastBox(s, T) ==
    /\ ~ub
    /\ IsDyn(s)
    /\ handles[s].kind = "box"
    /\ LET r == downcast_box(World, s, T)
       IN /\ mem' = r.w.mem
          /\ handles' = r.w.hs
          /\ last' = Obs("downcast_box", s, T, r.tag = "Ok", Held(r.w, s),
                         Deref(r.w.mem, Held(r.w, s)))
    /\ UNCHANGED <<ub, pc, raw, invoked>>

DowncastBoxUnchecked(s, T) ==
    /\ ~ub
    /\ IsDyn(s)
    /\ handles[s].kind = "box"
    /\ LET w == downcast_box_unchecked(World, s, T)
       IN /\ mem' = w.mem
          /\ handles' = w.hs
          /\ IF T = mem[handles[s].ptr].ty
             THEN /\ last' = Obs("downcast_box_unchecked", s, T, TRUE, Held(w, s),
                                 Deref(w.mem, Held(w, s)))
                  /\ ub' = FALSE
             ELSE /\ \E v \in Vals :
                        last' = Obs("downcast_box_unchecked", s, T, TRUE, Held(w, s), v)
                  /\ ub' = TRUE
    /\ UNCHANGED <<pc, raw, invoked>>

\* ------------------------------------------------------- calls: arc family
DowncastArc(s, T) ==
    /\ ~ub
    /\ IsDyn(s)
    /\ handles[s].kind = "arc"
    /\ LET r == downcast_arc(World, s, T)
       IN /\ mem' = r.w.mem
          /\ handles' = r.w.hs
          /\ last' = Obs("downcast_arc", s, T, r.tag = "Ok", Held(r.w, s),
                         Deref(r.w.mem, Held(r.w, s)))
    /\ UNCHANGED <<ub, pc, raw, invoked>>

DowncastArcUnchecked(s, T) ==
    /\ ~ub
    /\ IsDyn(s)
    /\ handles[s].kind = "arc"
    /\ LET w == downcast_arc_unchecked(World, s, T)
       IN /\ mem' = w.mem
          /\ handles' = w.hs
          /\ IF T = mem[handles[s].ptr].ty
             THEN /\ last' = Obs("downcast_arc_unchecked", s, T, TRUE, Held(w, s),
                                 Deref(w.mem, Held(w, s)))
                  /\ ub' = FALSE
             ELSE /\ \E v \in Vals :
                        last' = Obs("downcast_arc_unchecked", s, T, TRUE, Held(w, s), v)
                  /\ ub' = TRUE
    /\ UNCHANGED <<pc, raw, invoked>>

Kinds == {"ref", "mut", "box", "arc"}

Next ==
    \/ \E k \in Kinds, t \in Types, v \in Vals : New(k, t, v)
    \/ \E s \in Slots : Clone(s)
    \/ \E s \in Slots : Drop(s)
    \/ \E s \in Slots, T \in Types : Is(s, T)
    \/ \E s \in Slots, T \in Types : DowncastRef(s, T)
    \/ \E s \in Slots, T \in Types : DowncastRefUnchecked(s, T)
    \/ \E s \in Slots, T \in Types : DowncastMut(s, T)
    \/ \E s \in Slots, T \in Types : DowncastMutUnchecked(s, T)
    \/ \E v \in Vals : MutateThrough(v)
    \/ \E s \in Slots, T \in Types : DowncastBox(s, T)
    \/ \E s \in Slots, T \in Types : DowncastBoxUnchecked(s, T)
    \/ \E s \in Slots, T \in Types : DowncastArc(s, T)
    \/ \E s \in Slots, T \in Types : DowncastArcUnchecked(s, T)

Spec == Init /\ [][Next]_vars

\* ------------------------------------------- the arc family, interleaved
\* Each slot is a holder of its own Arc; the holders run independently. A
\* call of downcast_arc is the holder's steps in order: the is check, then
\* either Err(this) or Arc::into_raw followed by Arc::from_raw. Arc::clone
\* and the drop of an Arc are atomic in std.
CNew(t, v) == New("arc", t, v)

CClone(s) == pc[s] = "idle" /\ Clone(s)

CDrop(s) == pc[s] = "idle" /\ Drop(s)

CIs(s, T) == pc[s] = "idle" /\ handles[s].kind = "arc" /\ Is(s, T)

\* if this.is::<T>()
CBegin(s, T) ==
    /\ pc[s] = "idle"
    /\ IsDyn(s)
    /\ handles[s].kind = "arc"
    /\ pc' = [pc EXCEPT ![s] = IF is(handles[s], T) THEN "match" ELSE "mismatch"]
    /\ raw' = [raw EXCEPT ![s] = [p |-> 0, T |-> T]]
    /\ UNCHANGED <<mem, handles, last, ub, invoked>>

\* Result::Err(this)
CErr(s) ==
    /\ pc[s] = "mismatch"
    /\ pc' = [pc EXCEPT ![s] = "idle"]
    /\ raw' = [raw EXCEPT ![s] = NoRaw]
    /\ UNCHANGED <<mem, handles, last, ub, invoked>>

\* Arc::into_raw(this) as *mut T
CIntoRaw(s) ==
    /\ pc[s] = "match"
    /\ LET r == Arc_into_raw(World, s)
       IN /\ mem' = r.w.mem
          /\ handles' = r.w.hs
          /\ raw' = [raw EXCEPT ![s].p = r.p]
    /\ pc' = [pc EXCEPT ![s] = "raw"]
    /\ UNCHANGED <<last, ub, invoked>>

\* Result::Ok(Arc::from_raw(..))
CFromRaw(s) ==
    /\ pc[s] = "raw"
    /\ LET w == Arc_from_raw(World, s, raw[s].p, raw[s].T)
       IN /\ mem' = w.mem
          /\ handles' = w.hs
    /\ pc' = [pc EXCEPT ![s] = "idle"]
    /\ raw' = [raw EXCEPT ![s] = NoRaw]
    /\ UNCHANGED <<last, ub, invoked>>

NextConc ==
    \/ \E t \in Types, v \in Vals : CNew(t, v)
    \/ \E s \in Slots : CClone(s)
    \/ \E s \in Slots : CDrop(s)
    \/ \E s \in Slots, T \in Types : CIs(s, T)
    \/ \E s \in Slots, T \in Types : CBegin(s, T)
    \/ \E s \in Slots : CErr(s)
    \/ \E s \in Slots : CIntoRaw(s)
    \/ \E s \in Slots : CFromRaw(s)

SpecConc == Init /\ [][NextConc]_vars

\* ---------------------------------------------------------------- mopafy!
\* What one invocation of mopafy!(Trait, <selector>) expands to: the two
\* deprecated arms forward to the family arms.
Selectors == {"default", "only core", "core", "boxed", "arc"}

Expand(sel) ==
    CASE sel = "default"   -> {"core", "boxed"}
      [] sel = "only core" -> {"core"}
      [] OTHER             -> {sel}

\* The methods each family arm defines on the trait object type.
Methods(fam) ==
    CASE fam = "core"  -> {"is", "downcast_ref", "downcast_ref_unchecked",
                           "downcast_mut", "downcast_mut_unchecked"}
      [] fam = "boxed" -> {"downcast_box", "downcast_box_unchecked"}
      [] fam = "arc"   -> {"downcast_arc", "downcast_arc_unchecked"}

\* The generated methods each generated method calls.
Calls(m) ==
    CASE m = "downcast_ref" -> {"is", "downcast_ref_unchecked"}
      [] m = "downcast_mut" -> {"is", "downcast_mut_unchecked"}
      [] m = "downcast_box" -> {"is", "downcast_box_unchecked"}
      [] m = "downcast_arc" -> {"is", "downcast_arc_unchecked"}
      [] OTHER              -> {}

Families(tr) == UNION {Expand(sel) : sel \in invoked[tr]}
Generated(tr) == UNION {Methods(fam) : fam \in Families(tr)}

\* mopafy!(Trait, sel); a family is generated once per trait (a second impl
\* of the same methods does not compile).
Mopafy(tr, sel) ==
    /\ Expand(sel) \cap Families(tr) = {}
    /\ invoked' = [invoked EXCEPT ![tr] = @ \cup {sel}]
    /\ UNCHANGED <<mem, handles, last, ub, pc, raw>>

NextGen == \E tr \in 1..NumTraits, sel \in Selectors : Mopafy(tr, sel)

SpecGen == Init /\ [][NextGen]_vars

\* ================================================================= claims
\* The payload behind the handle of the last call, as it was at the call.
PayloadTy == last.pre.cell.ty
PayloadVal == last.pre.cell.val
PayloadAddr == last.pre.h.ptr

\* C1: behind any polymorphic handle (&, &mut, Box, Arc) to a payload of
\* concrete type T, is::<U>() is true exactly when U is T; every call of is
\* that was made returned that answer.
C1_IsExact ==
    /\ \A s \in Slots : IsDyn(s) =>
          \A U \in Types : is(handles[s], U) <=> (U = mem[handles[s].ptr].ty)
    /\ last.op = "is" => (last.ok <=> (last.T = PayloadTy))

C1_Witness ==
    /\ last.op = "is"
    /\ last.ok
    /\ \E U \in Types : U # PayloadTy /\ ~is(handles[last.slot], U)

\* C2: downcast_ref::<U>() returns Some exactly when is::<U>() is true, that
\* is when U is the payload's type, and None otherwise; the reference it
\* returns has the payload's address, and the payload and the handle are as
\* they were (nothing copied, nothing moved).
C2_DowncastRef ==
    last.op = "downcast_ref" =>
        /\ last.ok <=> is(last.pre.h, last.T)
        /\ last.ok <=> (last.T = PayloadTy)
        /\ last.ok => /\ last.ret = [ptr |-> PayloadAddr, sty |-> last.T]
                      /\ last.val = PayloadVal
        /\ ~last.ok => last.ret = NoRef
        /\ handles[last.slot] = last.pre.h
        /\ mem[PayloadAddr] = last.pre.cell

C2_Witness ==
    /\ last.op = "downcast_ref"
    /\ last.ok
    /\ last.ret.ptr = PayloadAddr
    /\ last.val = MaxVal

\* C3: a checked downcast_box::<U>() or downcast_arc::<U>() of a payload
\* whose type is not U returns Err with the original handle: the same slot
\* holds the same handle to the same allocation, the payload is what it was
\* and downcast_ref to its own type finds it, the strong count and the number
\* of owners are what they were, and a downcast of the returned handle to the
\* payload's type succeeds.
C3_MismatchGivesBack ==
    (last.op \in {"downcast_box", "downcast_arc"} /\ last.T # PayloadTy) =>
        /\ ~last.ok
        /\ handles[last.slot] = last.pre.h
        /\ last.ret = [ptr |-> PayloadAddr, sty |-> Dyn]
        /\ mem[PayloadAddr] = last.pre.cell
        /\ mem[PayloadAddr].st = "live"
        /\ Owners(handles, PayloadAddr) = last.pre.owners
        /\ downcast_ref(handles[last.slot], PayloadTy) =
              [tag |-> "Some", ref |-> [ptr |-> PayloadAddr, sty |-> PayloadTy]]
        /\ Deref(mem, downcast_ref(handles[last.slot], PayloadTy).ref) = PayloadVal
        /\ last.op = "downcast_box" => downcast_box(World, last.slot, PayloadTy).tag = "Ok"
        /\ last.op = "downcast_arc" => downcast_arc(World, last.slot, PayloadTy).tag = "Ok"

C3_Witness ==
    /\ last.op = "downcast_box"
    /\ ~last.ok
    /\ last.T # PayloadTy
    /\ PayloadVal = MaxVal

\* C4: downcast_arc::<T>() on a shared handle to a payload of type T returns
\* Ok with an Arc<T> to the same allocation: the strong count and the number
\* of handles are what they were before the call, the payload is untouched,
\* and dropping the retyped handle lowers the strong count by exactly one
\* while other handles remain.
C4_ArcSameCount ==
    (last.op = "downcast_arc" /\ last.T = PayloadTy) =>
        /\ last.ok
        /\ handles[last.slot] = ThinHandle("arc", PayloadAddr, last.T)
        /\ mem[PayloadAddr] = last.pre.cell
        /\ mem[PayloadAddr].strong = last.pre.cell.strong
        /\ Owners(handles, PayloadAddr) = last.pre.owners
        /\ last.pre.cell.strong > 1 =>
              /\ DropHandle(World, last.slot).mem[PayloadAddr].strong
                    = last.pre.cell.strong - 1
              /\ DropHandle(World, last.slot).mem[PayloadAddr].st = "live"

C4_Witness ==
    /\ last.op = "downcast_arc"
    /\ last.ok
    /\ last.pre.cell.strong > 1
    /\ mem[PayloadAddr].strong = last.pre.cell.strong

\* C5: downcast_box::<T>() on a Box whose payload has type T returns Ok with
\* a Box<T> that owns the same allocation, the payload equal to the original;
\* the polymorphic handle is gone and the allocation, still live and never
\* freed, has exactly one owner.
C5_BoxRetyped ==
    (last.op = "downcast_box" /\ last.T = PayloadTy) =>
        /\ last.ok
        /\ handles[last.slot] = ThinHandle("box", PayloadAddr, last.T)
        /\ last.val = PayloadVal
        /\ mem[PayloadAddr] = last.pre.cell
        /\ mem[PayloadAddr].st = "live"
        /\ mem[PayloadAddr].frees = 0
        /\ Owners(handles, PayloadAddr) = 1
        /\ \A s \in Slots : ~(IsDyn(s) /\ handles[s].ptr = PayloadAddr)

C5_Witness ==
    /\ last.op = "downcast_box"
    /\ last.ok
    /\ handles[last.slot].sty = PayloadTy
    /\ mem[PayloadAddr].val = MaxVal

\* C6: downcast_mut::<U>() returns Some exactly when U is the payload's type,
\* with an exclusive reference to the payload's own storage, so that a value
\* written through it is the value the original handle sees afterwards; for
\* any other U it returns None and the payload is as it was.
C6_DowncastMut ==
    /\ last.op = "downcast_mut" =>
          /\ last.ok <=> (last.T = PayloadTy)
          /\ last.ok => last.ret = [ptr |-> PayloadAddr, sty |-> last.T]
          /\ ~last.ok => last.ret = NoRef
          /\ mem[PayloadAddr] = last.pre.cell
          /\ handles[last.slot] = last.pre.h
    /\ last.op = "write_mut" =>
          /\ handles[last.slot] = last.pre.h
          /\ mem[handles[last.slot].ptr] = [last.pre.cell EXCEPT !.val = last.val]
          /\ Deref(mem, downcast_ref(handles[last.slot], last.T).ref) = last.val

C6_Witness ==
    /\ last.op = "write_mut"
    /\ last.val # PayloadVal
    /\ mem[handles[last.slot].ptr].val = last.val

\* C7: whenever is::<T>() is true for a handle, each unchecked operation
\* gives what the successful branch of its checked counterpart gives: the
\* same reference (address and type) for downcast_ref and downcast_mut, the
\* same handles over the same memory for downcast_box and downcast_arc; and
\* every unchecked call that was made on a matching handle returned what the
\* checked call returns there.
C7_UncheckedAgrees ==
    /\ \A s \in Slots, T \in Types : (IsDyn(s) /\ is(handles[s], T)) =>
          /\ downcast_ref(handles[s], T) =
                [tag |-> "Some", ref |-> downcast_ref_unchecked(handles[s], T)]
          /\ downcast_mut(handles[s], T) =
                [tag |-> "Some", ref |-> downcast_mut_unchecked(handles[s], T)]
          /\ handles[s].kind = "box" =>
                downcast_box(World, s, T) =
                   [tag |-> "Ok", w |-> downcast_box_unchecked(World, s, T)]
          /\ handles[s].kind = "arc" =>
                downcast_arc(World, s, T) =
                   [tag |-> "Ok", w |-> downcast_arc_unchecked(World, s, T)]
    /\ (last.op = "downcast_ref_unchecked" /\ is(last.pre.h, last.T)) =>
          /\ last.ret = downcast_ref(last.pre.h, last.T).ref
          /\ last.val = Deref(mem, downcast_ref(last.pre.h, last.T).ref)
    /\ (last.op = "downcast_mut_unchecked" /\ is(last.pre.h, last.T)) =>
          last.ret = downcast_mut(last.pre.h, last.T).ref
    /\ (last.op = "downcast_box_unchecked" /\ is(last.pre.h, last.T)) =>
          /\ ~ub
          /\ handles[last.slot] = ThinHandle("box", PayloadAddr, PayloadTy)
          /\ mem[PayloadAddr] = last.pre.cell
    /\ (last.op = "downcast_arc_unchecked" /\ is(last.pre.h, last.T)) =>
          /\ ~ub
          /\ handles[last.slot] = ThinHandle("arc", PayloadAddr, PayloadTy)
          /\ mem[PayloadAddr] = last.pre.cell

C7_Witness ==
    /\ last.op = "downcast_ref_unchecked"
    /\ is(last.pre.h, last.T)
    /\ last.ret = downcast_ref(last.pre.h, last.T).ref
    /\ last.ret.ptr = PayloadAddr

\* C8: whatever families were requested for a trait, every method that a
\* generated method calls is itself generated for that trait.
C8_FamiliesSelfContained ==
    \A tr \in 1..NumTraits : \A m \in Generated(tr) : Calls(m) \subseteq Generated(tr)

\* C9: under every interleaving of the holders' clone, is, downcast_arc and
\* drop, the strong count of a live allocation is the number of outstanding
\* handles to it (polymorphic, retyped, or a raw pointer between into_raw and
\* from_raw); an allocation with an outstanding handle is live; one whose
\* handles are all dropped has been freed, exactly once.
Outstanding(a) ==
    Owners(handles, a) + Cardinality({s \in Slots : pc[s] = "raw" /\ raw[s].p = a})

C9_CountIsHandles ==
    \A a \in Addrs :
        /\ mem[a].st = "live" => mem[a].strong = Outstanding(a) /\ mem[a].strong >= 1
        /\ Outstanding(a) > 0 => mem[a].st = "live" /\ mem[a].frees = 0
        /\ (mem[a].st # "unused" /\ Outstanding(a) = 0) =>
              mem[a].st = "freed" /\ mem[a].frees = 1

C9_Witness ==
    \E s, d \in Slots :
        /\ pc[s] = "raw"
        /\ handles[d].kind = "arc"
        /\ handles[d].ptr = raw[s].p
        /\ mem[raw[s].p].strong = 2

\* C10: is, downcast_ref and a downcast_mut that does not match leave
\* everything as it was: the handle, the payload's value, type, address and
\* strong count, and every other cell and handle; so the same call made
\* again returns the same result.
PureCall(l) ==
    \/ l.op \in {"is", "downcast_ref"}
    \/ l.op = "downcast_mut" /\ ~l.ok

====
